---- MODULE Spec2Model ----
(***************************************************************************)
(* Two-level key/value cache of normalize_japanese_addresses/library/      *)
(* cache.py: a bounded OrderedDict (RAM Layer) in front of one file per    *)
(* key (Disk Store), with the JSON serializer and the record layout        *)
(* modelled down to bytes; the calls run one at a time, or, in SpecThreads, *)
(* as two threads whose OrderedDict calls interleave.  apiFetch of         *)
(* library/api.py is modelled next to it: the branch it takes on the       *)
(* beginning of the endpoint, the URL handed to requests.get and the path  *)
(* handed to open.                                                         *)
(*                                                                         *)
(* Python values are tagged records: [t |-> "null"] is None,               *)
(* [t |-> "int", n |-> 1] is 1, [t |-> "str", s |-> <<97>>] is "a" (a      *)
(* string is the sequence of its code points), [t |-> "list", ...] a list, *)
(* [t |-> "dict", ...] a string-keyed dict, [t |-> "set"] an object that   *)
(* json.dumps rejects.  bytes objects are sequences of 0..255.             *)
(***************************************************************************)
EXTENDS Integers, Sequences, FiniteSets, TLC

\* ------------------------------------------------------------------ values

PyNone == [t |-> "null"]
PyBool(b) == [t |-> "bool", b |-> b]
PyInt(n) == [t |-> "int", n |-> n]
PyStr(s) == [t |-> "str", s |-> s]
PyList(xs) == [t |-> "list", items |-> xs]
\* a dict in insertion order: a sequence of <<key code points, value>> pairs
PyDict(kvs) == [t |-> "dict", pairs |-> kvs]
\* an object json.dumps cannot serialize (a set, say)
PySet == [t |-> "set"]

\* ------------------------------------------------------------------ UTF-8

\* str.encode("utf-8") of one code point: ok = FALSE is UnicodeEncodeError
\* (a lone surrogate).
Utf8OfCodePoint(c) ==
    IF c < 128 THEN [ok |-> TRUE, bytes |-> <<c>>]
    ELSE IF c < 2048 THEN [ok |-> TRUE, bytes |-> <<192 + (c \div 64), 128 + (c % 64)>>]
    ELSE IF c >= 55296 /\ c <= 57343 THEN [ok |-> FALSE, bytes |-> <<>>]
    ELSE IF c < 65536 THEN
        [ok |-> TRUE,
         bytes |-> <<224 + (c \div 4096), 128 + ((c \div 64) % 64), 128 + (c % 64)>>]
    ELSE
        [ok |-> TRUE,
         bytes |-> <<240 + (c \div 262144), 128 + ((c \div 4096) % 64),
                     128 + ((c \div 64) % 64), 128 + (c % 64)>>]

RECURSIVE Utf8Encode(_)
\* str.encode("utf-8"): code points to bytes
Utf8Encode(s) ==
    IF s = <<>> THEN [ok |-> TRUE, bytes |-> <<>>]
    ELSE LET h == Utf8OfCodePoint(Head(s))
             r == Utf8Encode(Tail(s))
         IN  IF h.ok /\ r.ok THEN [ok |-> TRUE, bytes |-> h.bytes \o r.bytes]
             ELSE [ok |-> FALSE, bytes |-> <<>>]

IsCont(b) == b >= 128 /\ b < 192

RECURSIVE Utf8Decode(_)
\* bytes.decode("utf-8"): ok = FALSE is UnicodeDecodeError (a stray or missing
\* continuation byte, an overlong form, an encoded surrogate, a byte >= 0xF5).
Utf8Decode(b) ==
    IF b = <<>> THEN [ok |-> TRUE, s |-> <<>>]
    ELSE
      LET b1 == b[1]
          n  == IF b1 < 128 THEN 1
                ELSE IF b1 >= 194 /\ b1 < 224 THEN 2
                ELSE IF b1 >= 224 /\ b1 < 240 THEN 3
                ELSE IF b1 >= 240 /\ b1 < 245 THEN 4
                ELSE 0
          bad == [ok |-> FALSE, s |-> <<>>]
      IN  IF n = 0 \/ Len(b) < n \/ (\E i \in 2..n : ~IsCont(b[i])) THEN bad
          ELSE
            LET c == IF n = 1 THEN b1
                     ELSE IF n = 2 THEN (b1 - 192) * 64 + (b[2] - 128)
                     ELSE IF n = 3 THEN
                        (b1 - 224) * 4096 + (b[2] - 128) * 64 + (b[3] - 128)
                     ELSE (b1 - 240) * 262144 + (b[2] - 128) * 4096
                          + (b[3] - 128) * 64 + (b[4] - 128)
                r == Utf8Decode(SubSeq(b, n + 1, Len(b)))
            IN  IF (n = 3 /\ (c < 2048 \/ (c >= 55296 /\ c <= 57343)))
                   \/ (n = 4 /\ (c < 65536 \/ c > 1114111))
                   \/ ~r.ok
                THEN bad
                ELSE [ok |-> TRUE, s |-> <<c>> \o r.s]

\* ------------------------------------------------------------------ json.dumps

RECURSIVE DecimalDigits(_)
\* the decimal digits of n >= 0, as code points
DecimalDigits(n) ==
    IF n < 10 THEN <<48 + n>> ELSE DecimalDigits(n \div 10) \o <<48 + (n % 10)>>

HexDigit(d) == IF d < 10 THEN 48 + d ELSE 87 + d

\* one character of a string literal as json.dumps(ensure_ascii=False) writes it
EscapeChar(c) ==
    IF c = 34 THEN <<92, 34>>
    ELSE IF c = 92 THEN <<92, 92>>
    ELSE IF c = 10 THEN <<92, 110>>
    ELSE IF c = 13 THEN <<92, 114>>
    ELSE IF c = 9 THEN <<92, 116>>
    ELSE IF c = 8 THEN <<92, 98>>
    ELSE IF c = 12 THEN <<92, 102>>
    ELSE IF c < 32 THEN <<92, 117, 48, 48, HexDigit(c \div 16), HexDigit(c % 16)>>
    ELSE <<c>>

RECURSIVE EscapeChars(_)
EscapeChars(s) ==
    IF s = <<>> THEN <<>> ELSE EscapeChar(Head(s)) \o EscapeChars(Tail(s))

StringLiteral(s) == <<34>> \o EscapeChars(s) \o <<34>>

RECURSIVE JsonDumps(_)
RECURSIVE DumpItems(_)
RECURSIVE DumpPairs(_)
\* json.dumps(obj, ensure_ascii=False, separators=(',', ':')): the text as code
\* points; ok = FALSE is TypeError (an object that is not JSON serializable).
JsonDumps(v) ==
    CASE v.t = "null" -> [ok |-> TRUE, s |-> <<110, 117, 108, 108>>]
      [] v.t = "bool" ->
            [ok |-> TRUE,
             s |-> IF v.b THEN <<116, 114, 117, 101>> ELSE <<102, 97, 108, 115, 101>>]
      [] v.t = "int" ->
            [ok |-> TRUE,
             s |-> IF v.n < 0 THEN <<45>> \o DecimalDigits(-v.n) ELSE DecimalDigits(v.n)]
      [] v.t = "str" -> [ok |-> TRUE, s |-> StringLiteral(v.s)]
      [] v.t = "list" ->
            LET r == DumpItems(v.items)
            IN  [ok |-> r.ok, s |-> <<91>> \o r.s \o <<93>>]
      [] v.t = "dict" ->
            LET r == DumpPairs(v.pairs)
            IN  [ok |-> r.ok, s |-> <<123>> \o r.s \o <<125>>]
      [] OTHER -> [ok |-> FALSE, s |-> <<>>]

DumpItems(xs) ==
    IF xs = <<>> THEN [ok |-> TRUE, s |-> <<>>]
    ELSE LET h == JsonDumps(Head(xs))
             r == DumpItems(Tail(xs))
         IN  [ok |-> h.ok /\ r.ok,
              s |-> h.s \o (IF Len(xs) > 1 THEN <<44>> ELSE <<>>) \o r.s]

DumpPairs(kvs) ==
    IF kvs = <<>> THEN [ok |-> TRUE, s |-> <<>>]
    ELSE LET h == JsonDumps(Head(kvs)[2])
             r == DumpPairs(Tail(kvs))
         IN  [ok |-> h.ok /\ r.ok,
              s |-> StringLiteral(Head(kvs)[1]) \o <<58>> \o h.s
                    \o (IF Len(kvs) > 1 THEN <<44>> ELSE <<>>) \o r.s]

\* tmp.encode("utf-8") of what json.dumps returned (or raised)
EncodeText(tmp) == IF tmp.ok THEN Utf8Encode(tmp.s) ELSE [ok |-> FALSE, bytes |-> <<>>]

\* Cache._encode_default: ok = FALSE is the exception json.dumps or str.encode
\* raises (TypeError, UnicodeEncodeError).
EncodeDefault(obj) == EncodeText(JsonDumps(obj))

\* ------------------------------------------------------------------ json.loads

\* the code point at position p of s, or -1 past the end
At(s, p) == IF p >= 1 /\ p <= Len(s) THEN s[p] ELSE -1

IsDigit(c) == c >= 48 /\ c <= 57
IsWs(c) == c \in {32, 9, 10, 13}

RECURSIVE SkipWs(_, _)
SkipWs(s, p) == IF IsWs(At(s, p)) THEN SkipWs(s, p + 1) ELSE p

RECURSIVE SkipDigits(_, _)
SkipDigits(s, p) == IF IsDigit(At(s, p)) THEN SkipDigits(s, p + 1) ELSE p

RECURSIVE DigitsValue(_, _, _)
\* the number written by the digits s[p..q-1]
DigitsValue(s, p, q) ==
    IF p >= q THEN 0 ELSE DigitsValue(s, p, q - 1) * 10 + (s[q - 1] - 48)

HexValue(c) ==
    IF IsDigit(c) THEN c - 48
    ELSE IF c >= 97 /\ c <= 102 THEN c - 87
    ELSE IF c >= 65 /\ c <= 70 THEN c - 55
    ELSE -1

ParseFail == [ok |-> FALSE, v |-> PyNone, p |-> 0]

\* the scanner's number: -?(0|[1-9][0-9]*) (\.[0-9]+)? ([eE][-+]?[0-9]+)? ;
\* an int when there is neither fraction nor exponent, else a float, kept as
\* its text.
ParseNumber(s, p) ==
    LET i0 == IF At(s, p) = 45 THEN p + 1 ELSE p
        i1 == IF At(s, i0) = 48 THEN i0 + 1
              ELSE IF IsDigit(At(s, i0)) THEN SkipDigits(s, i0)
              ELSE i0
        f1 == IF At(s, i1) = 46 /\ IsDigit(At(s, i1 + 1)) THEN SkipDigits(s, i1 + 1) ELSE i1
        e0 == IF At(s, f1) \in {101, 69}
              THEN (IF At(s, f1 + 1) \in {43, 45} THEN f1 + 2 ELSE f1 + 1)
              ELSE f1
        e1 == IF e0 > f1 /\ IsDigit(At(s, e0)) THEN SkipDigits(s, e0) ELSE f1
    IN  IF i1 = i0 THEN ParseFail
        ELSE IF e1 = i1 THEN
            [ok |-> TRUE,
             v |-> PyInt(IF i0 > p THEN -DigitsValue(s, i0, i1) ELSE DigitsValue(s, i0, i1)),
             p |-> i1]
        ELSE [ok |-> TRUE, v |-> [t |-> "float", text |-> SubSeq(s, p, e1 - 1)], p |-> e1]

RECURSIVE ScanString(_, _, _)
\* the string literal whose opening quote is at p - 1: the characters up to the
\* closing quote (strict: no raw control character), acc what was read so far
ScanString(s, p, acc) ==
    LET c == At(s, p)
    IN  IF c = -1 \/ (c >= 0 /\ c < 32) THEN ParseFail
        ELSE IF c = 34 THEN [ok |-> TRUE, v |-> PyStr(acc), p |-> p + 1]
        ELSE IF c # 92 THEN ScanString(s, p + 1, acc \o <<c>>)
        ELSE
          LET e == At(s, p + 1)
          IN  IF e = 34 THEN ScanString(s, p + 2, acc \o <<34>>)
              ELSE IF e = 92 THEN ScanString(s, p + 2, acc \o <<92>>)
              ELSE IF e = 47 THEN ScanString(s, p + 2, acc \o <<47>>)
              ELSE IF e = 98 THEN ScanString(s, p + 2, acc \o <<8>>)
              ELSE IF e = 102 THEN ScanString(s, p + 2, acc \o <<12>>)
              ELSE IF e = 110 THEN ScanString(s, p + 2, acc \o <<10>>)
              ELSE IF e = 114 THEN ScanString(s, p + 2, acc \o <<13>>)
              ELSE IF e = 116 THEN ScanString(s, p + 2, acc \o <<9>>)
              ELSE IF e = 117 /\ \A i \in 2..5 : HexValue(At(s, p + i)) >= 0 THEN
                ScanString(s, p + 6,
                    acc \o <<HexValue(s[p + 2]) * 4096 + HexValue(s[p + 3]) * 256
                             + HexValue(s[p + 4]) * 16 + HexValue(s[p + 5])>>)
              ELSE ParseFail

IsLiteral(s, p, lit) ==
    /\ p + Len(lit) - 1 <= Len(s)
    /\ SubSeq(s, p, p + Len(lit) - 1) = lit

RECURSIVE ParseValue(_, _)
RECURSIVE ParseItems(_, _, _)
RECURSIVE ParsePairs(_, _, _)
\* the scanner's scan_once at position p: the value and the position after it
ParseValue(s, p) ==
    LET c == At(s, p)
    IN  IF c = 34 THEN ScanString(s, p + 1, <<>>)
        ELSE IF c = 123 THEN
            (IF At(s, SkipWs(s, p + 1)) = 125
             THEN [ok |-> TRUE, v |-> PyDict(<<>>), p |-> SkipWs(s, p + 1) + 1]
             ELSE ParsePairs(s, SkipWs(s, p + 1), <<>>))
        ELSE IF c = 91 THEN
            (IF At(s, SkipWs(s, p + 1)) = 93
             THEN [ok |-> TRUE, v |-> PyList(<<>>), p |-> SkipWs(s, p + 1) + 1]
             ELSE ParseItems(s, SkipWs(s, p + 1), <<>>))
        ELSE IF IsLiteral(s, p, <<110, 117, 108, 108>>)
            THEN [ok |-> TRUE, v |-> PyNone, p |-> p + 4]
        ELSE IF IsLiteral(s, p, <<116, 114, 117, 101>>)
            THEN [ok |-> TRUE, v |-> PyBool(TRUE), p |-> p + 4]
        ELSE IF IsLiteral(s, p, <<102, 97, 108, 115, 101>>)
            THEN [ok |-> TRUE, v |-> PyBool(FALSE), p |-> p + 5]
        ELSE ParseNumber(s, p)

\* an array after its item r was read: "]" ends it, "," continues
ItemsAfter(s, acc, r, q) ==
    IF At(s, q) = 93 THEN [ok |-> TRUE, v |-> PyList(acc \o <<r.v>>), p |-> q + 1]
    ELSE IF At(s, q) = 44 THEN ParseItems(s, SkipWs(s, q + 1), acc \o <<r.v>>)
    ELSE ParseFail

ItemParsed(s, acc, r) == IF r.ok THEN ItemsAfter(s, acc, r, SkipWs(s, r.p)) ELSE ParseFail

\* the items of an array from position p (after "[" or ","), acc those read
ParseItems(s, p, acc) == ItemParsed(s, acc, ParseValue(s, p))

\* acc with the pair <<k, v>>: a key read twice keeps its first place and takes
\* the last value, as a dict does
WithPair(acc, k, v) ==
    IF \E i \in 1..Len(acc) : acc[i][1] = k
    THEN [i \in 1..Len(acc) |-> IF acc[i][1] = k THEN <<k, v>> ELSE acc[i]]
    ELSE acc \o << <<k, v>> >>

\* an object after the pair k: r was read: "}" ends it, "," continues
PairsAfter(s, acc2, e) ==
    IF At(s, e) = 125 THEN [ok |-> TRUE, v |-> PyDict(acc2), p |-> e + 1]
    ELSE IF At(s, e) = 44 THEN ParsePairs(s, SkipWs(s, e + 1), acc2)
    ELSE ParseFail

PairParsed(s, acc, k, r) ==
    IF r.ok THEN PairsAfter(s, WithPair(acc, k, r.v), SkipWs(s, r.p)) ELSE ParseFail

\* an object after the key k was read, q the position of the ":" expected
KeyParsed(s, acc, k, q) ==
    IF At(s, q) # 58 THEN ParseFail
    ELSE PairParsed(s, acc, k.v.s, ParseValue(s, SkipWs(s, q + 1)))

KeyScanned(s, acc, k) == IF k.ok THEN KeyParsed(s, acc, k, SkipWs(s, k.p)) ELSE ParseFail

\* the "key":value pairs of an object from position p, acc those read
ParsePairs(s, p, acc) ==
    IF At(s, p) # 34 THEN ParseFail ELSE KeyScanned(s, acc, ScanString(s, p + 1, <<>>))

\* the end of json.loads: the value r, and nothing but whitespace after it
WholeText(s, r) ==
    IF r.ok /\ SkipWs(s, r.p) = Len(s) + 1 THEN [ok |-> TRUE, v |-> r.v]
    ELSE [ok |-> FALSE, v |-> PyNone]

\* json.loads(text): ok = FALSE is JSONDecodeError (no value, or extra data
\* after it)
JsonLoads(s) == WholeText(s, ParseValue(s, SkipWs(s, 1)))

\* json.loads of what contents.decode("utf-8") returned (or raised)
LoadText(text) == IF text.ok THEN JsonLoads(text.s) ELSE [ok |-> FALSE, v |-> PyNone]

\* Cache._decode_default: ok = FALSE is UnicodeDecodeError or JSONDecodeError
DecodeDefault(contents) == LoadText(Utf8Decode(contents))

\* ------------------------------------------------------------------ disk records

RECURSIVE ToBytesBig(_, _)
\* n.to_bytes(w, "big")
ToBytesBig(n, w) ==
    IF w = 0 THEN <<>> ELSE ToBytesBig(n \div 256, w - 1) \o <<n % 256>>

RECURSIVE ToBytes(_, _)
\* n.to_bytes(w, "little")
ToBytes(n, w) == IF w = 0 THEN <<>> ELSE <<n % 256>> \o ToBytes(n \div 256, w - 1)

RECURSIVE FromBytes(_)
\* int.from_bytes(b, "little"), for b of any length (0 for b"")
FromBytes(b) == IF b = <<>> THEN 0 ELSE Head(b) + 256 * FromBytes(Tail(b))

\* hashlib.md5(encoded).hexdigest(): the file name of a key.  MD5 itself is not
\* computed; the digest is modelled as a deterministic function of the encoded
\* key that is not injective (here its length), so that distinct keys can share
\* a file as colliding keys do.
Md5Hex(encoded) == Len(encoded)

\* a file of the cache directory: is_file() and its bytes
NoFile == [exists |-> FALSE, bytes |-> <<>>]
FileOf(contents) == [exists |-> TRUE, bytes |-> contents]

\* fp.read(n) with the file position at pos (0-based): at most n bytes
FileRead(bytes, pos, n) ==
    SubSeq(bytes, pos + 1, IF pos + n <= Len(bytes) THEN pos + n ELSE Len(bytes))

\* Contents with the key field written before the version field
ContentsKeyFirst(version, encoded_key, encoded_val) ==
    ToBytes(Len(encoded_key), 8) \o encoded_key
        \o ToBytes(Len(version), 8) \o version
        \o ToBytes(Len(encoded_val), 8) \o encoded_val

\* the record insert_to_disk builds
Contents(version, encoded_key, encoded_val) ==
    ToBytes(Len(version), 8) \o version
        \o ToBytes(Len(encoded_key), 8) \o encoded_key
        \o ToBytes(Len(encoded_val), 8) \o encoded_val

\* How a call ends: out = "return" with the value v, or out names the exception.
Return(v) == [out |-> "return", v |-> v]
Raise(e) == [out |-> e, v |-> PyNone]
\* raise KeyError(key): the exception carries the key
RaiseKeyError(key) == [out |-> "KeyError", v |-> PyStr(key)]

\* what get_from_disk returns for the decoded value (or its exception)
Decoded(value) == IF value.ok THEN Return(value.v) ELSE Raise("ValueError")

\* get_from_disk, lines 78-80: the value field and its decoding
ReadValue(bytes, pos, len_field) ==
    Decoded(DecodeDefault(FileRead(bytes, pos + Len(len_field), FromBytes(len_field))))

\* CheckKey comparing only the lengths of the stored key and the key
CheckKeyLenOnly(bytes, after, stored, encoded) ==
    IF Len(stored) # Len(encoded) THEN Return(PyNone)
    ELSE ReadValue(bytes, after + Len(stored), FileRead(bytes, after + Len(stored), 8))

\* get_from_disk, lines 75-78: the stored key against the encoded key
CheckKey(bytes, after, stored, encoded) ==
    IF stored # encoded THEN Return(PyNone)
    ELSE ReadValue(bytes, after + Len(stored), FileRead(bytes, after + Len(stored), 8))

\* get_from_disk, line 74: the key field
ReadKey(bytes, pos, len_field, encoded) ==
    CheckKey(bytes, pos + Len(len_field),
             FileRead(bytes, pos + Len(len_field), FromBytes(len_field)), encoded)

\* CheckVersion comparing only the lengths of the stored version and _version
CheckVersionLenOnly(bytes, after, stored, version, encoded) ==
    IF Len(stored) # Len(version) THEN Return(PyNone)
    ELSE ReadKey(bytes, after + Len(stored), FileRead(bytes, after + Len(stored), 8),
                 encoded)

\* get_from_disk, lines 71-74: the stored version against _version
CheckVersion(bytes, after, stored, version, encoded) ==
    IF stored # version THEN Return(PyNone)
    ELSE ReadKey(bytes, after + Len(stored), FileRead(bytes, after + Len(stored), 8),
                 encoded)

\* get_from_disk, line 70: the version field
ReadVersion(bytes, len_field, version, encoded) ==
    CheckVersion(bytes, Len(len_field),
                 FileRead(bytes, Len(len_field), FromBytes(len_field)), version, encoded)

\* get_from_disk from "if not path.is_file()" on, for the file of the key
ReadFile(file, version, encoded) ==
    IF ~file.exists THEN Return(PyNone)
    ELSE ReadVersion(file.bytes, FileRead(file.bytes, 0, 8), version, encoded)

\* get_from_disk after key.encode("utf-8") returned (or raised)
ReadEncoded(dir, version, encoded) ==
    IF ~encoded.ok THEN Raise("UnicodeEncodeError")
    ELSE ReadFile(dir[Md5Hex(encoded.bytes)], version, encoded.bytes)

\* Cache.get_from_disk on the directory dir (file name -> file) of an instance
\* whose _version is version
GetFromDisk(dir, version, key) == ReadEncoded(dir, version, Utf8Encode(key))

\* What path.write_bytes(contents) can leave in the file: the whole contents
\* (cut = Len(contents), the write returned), or, when it raises OSError, the
\* old file (cut = -1, the open failed) or the first cut bytes (the open
\* truncated the file and the write stopped early).
WriteCuts(contents) == -1 .. Len(contents)

WriteBytes(old, contents, cut) ==
    IF cut = -1 THEN old ELSE FileOf(SubSeq(contents, 1, cut))

\* insert_to_disk writing the record to every file of the directory
WriteRecordEverywhere(dir, filename, contents, cut) ==
    [dir |-> [f \in DOMAIN dir |-> WriteBytes(dir[f], contents, cut)],
     end |-> IF cut = Len(contents) THEN Return(PyNone) ELSE Raise("OSError")]

\* insert_to_disk, lines 101-105: the record built and written
WriteRecord(dir, filename, contents, cut) ==
    [dir |-> [dir EXCEPT ![filename] = WriteBytes(@, contents, cut)],
     end |-> IF cut = Len(contents) THEN Return(PyNone) ELSE Raise("OSError")]

\* insert_to_disk after the key and the value were encoded (or raised)
WriteEncoded(dir, version, encoded_key, encoded_val, cut) ==
    IF ~encoded_key.ok THEN [dir |-> dir, end |-> Raise("UnicodeEncodeError")]
    ELSE IF ~encoded_val.ok THEN [dir |-> dir, end |-> Raise("TypeError")]
    ELSE WriteRecord(dir, Md5Hex(encoded_key.bytes),
                     Contents(version, encoded_key.bytes, encoded_val.bytes), cut)

\* Cache.insert_to_disk: the directory afterwards and how the call ended
InsertToDisk(dir, version, key, value, cut) ==
    WriteEncoded(dir, version, Utf8Encode(key), EncodeDefault(value), cut)

\* ------------------------------------------------------------------ RAM layer

\* The OrderedDict _ram_cache is a sequence of entries, oldest first.
Entry(k, v) == [key |-> k, value |-> v]

RamKeys(ram) == {ram[j].key : j \in 1..Len(ram)}

\* OrderedDict.pop(key, None): the mapping without key, and key's value or None
DictPop(ram, key) ==
    LET at == {j \in 1..Len(ram) : ram[j].key = key}
    IN  IF at = {} THEN [ram |-> ram, value |-> PyNone]
        ELSE LET j == CHOOSE x \in at : TRUE
             IN  [ram |-> SubSeq(ram, 1, j - 1) \o SubSeq(ram, j + 1, Len(ram)),
                  value |-> ram[j].value]

\* get_from_ram after the pop: a value that is not None is stored again
Restore(popped, key) ==
    IF popped.value # PyNone
    THEN [ram |-> Append(popped.ram, Entry(key, popped.value)), value |-> popped.value]
    ELSE [ram |-> popped.ram, value |-> PyNone]

\* Cache.get_from_ram: the mapping afterwards and the value returned
GetFromRam(ram, key) == Restore(DictPop(ram, key), key)

\* insert_to_ram after the pop: popitem(last=False) when the key was not there
\* (or held None) and the mapping is full, then the store
EvictAndStore(popped, ram_capacity, key, value) ==
    IF popped.value = PyNone /\ Len(popped.ram) = ram_capacity
    THEN IF popped.ram = <<>>
         THEN [ram |-> popped.ram, evicted |-> {}, ok |-> FALSE]
         ELSE [ram |-> Append(Tail(popped.ram), Entry(key, value)),
               evicted |-> {Head(popped.ram).key}, ok |-> TRUE]
    ELSE [ram |-> Append(popped.ram, Entry(key, value)), evicted |-> {}, ok |-> TRUE]

\* insert_to_ram evicting only once the mapping holds more than ram_capacity
InsertToRamLate(ram, ram_capacity, key, value) ==
    EvictAndStore(DictPop(ram, key), ram_capacity + 1, key, value)

\* insert_to_ram keeping the value of a key that is there
InsertToRamKeepOld(ram, ram_capacity, key, value) ==
    IF key \in RamKeys(ram)
    THEN EvictAndStore(DictPop(ram, key), ram_capacity, key, DictPop(ram, key).value)
    ELSE EvictAndStore(DictPop(ram, key), ram_capacity, key, value)

\* insert_to_ram testing the length before it pops the key
InsertToRamEvictFirst(ram, ram_capacity, key, value) ==
    IF Len(ram) = ram_capacity /\ ram # <<>>
    THEN [ram |-> Append(DictPop(Tail(ram), key).ram, Entry(key, value)),
          evicted |-> {Head(ram).key} \ {key}, ok |-> TRUE]
    ELSE [ram |-> Append(DictPop(ram, key).ram, Entry(key, value)),
          evicted |-> {}, ok |-> TRUE]

\* Cache.insert_to_ram: the mapping afterwards, the keys popitem(last=False)
\* removed, and ok = FALSE when popitem raises KeyError on an empty mapping
InsertToRam(ram, ram_capacity, key, value) ==
    EvictAndStore(DictPop(ram, key), ram_capacity, key, value)

\* ------------------------------------------------------------------ apiFetch

\* str.startswith(prefix)
StartsWith(s, prefix) ==
    Len(s) >= Len(prefix) /\ SubSeq(s, 1, Len(prefix)) = prefix

\* the literals of api.py: 'http', 'file', "file://"
HttpPrefix == <<104, 116, 116, 112>>
FilePrefix == <<102, 105, 108, 101>>
FileSlashes == <<102, 105, 108, 101, 58, 47, 47>>

RECURSIVE StrReplace(_, _, _)
\* str.replace(old, new) for a non-empty old: every occurrence of old, found
\* from the left and not overlapping, becomes new
StrReplace(s, old, new) ==
    IF Len(s) < Len(old) THEN s
    ELSE IF StartsWith(s, old)
    THEN new \o StrReplace(SubSeq(s, Len(old) + 1, Len(s)), old, new)
    ELSE <<Head(s)>> \o StrReplace(Tail(s), old, new)

IsHexDigit(c) == c \in (48 .. 57) \cup (65 .. 70) \cup (97 .. 102)
HexDigitValue(c) == IF c <= 57 THEN c - 48 ELSE IF c <= 70 THEN c - 55 ELSE c - 87

RECURSIVE UnquoteToBytes(_)
\* urllib.parse.unquote_to_bytes of a run of ASCII characters: %XX becomes the
\* byte XX, a % that two hex digits do not follow stays
UnquoteToBytes(s) ==
    IF s = <<>> THEN <<>>
    ELSE IF s[1] = 37 /\ Len(s) >= 3 /\ IsHexDigit(s[2]) /\ IsHexDigit(s[3])
    THEN <<16 * HexDigitValue(s[2]) + HexDigitValue(s[3])>>
            \o UnquoteToBytes(SubSeq(s, 4, Len(s)))
    ELSE <<s[1]>> \o UnquoteToBytes(Tail(s))

\* the length of the UTF-8 form a lead byte announces, 0 for a byte that
\* cannot lead
LeadLen(b1) ==
    IF b1 < 128 THEN 1
    ELSE IF b1 >= 194 /\ b1 < 224 THEN 2
    ELSE IF b1 >= 224 /\ b1 < 240 THEN 3
    ELSE IF b1 >= 240 /\ b1 < 245 THEN 4
    ELSE 0

\* the second byte may follow the lead byte b1
ValidSecond(b1, b2) ==
    IF b1 = 224 THEN b2 \in 160 .. 191
    ELSE IF b1 = 237 THEN b2 \in 128 .. 159
    ELSE IF b1 = 240 THEN b2 \in 144 .. 191
    ELSE IF b1 = 244 THEN b2 \in 128 .. 143
    ELSE IsCont(b2)

\* the bytes one U+FFFD replaces at the head of b, which does not begin with
\* a well-formed character: the lead byte and the bytes that validly continue it
IllFormedLen(b) ==
    IF LeadLen(b[1]) < 2 \/ Len(b) < 2 THEN 1
    ELSE IF ~ValidSecond(b[1], b[2]) THEN 1
    ELSE IF Len(b) < 3 \/ ~IsCont(b[3]) THEN 2
    ELSE 3

\* b begins with a well-formed character
WellFormedHead(b) ==
    /\ LeadLen(b[1]) > 0
    /\ Len(b) >= LeadLen(b[1])
    /\ Utf8Decode(SubSeq(b, 1, LeadLen(b[1]))).ok

RECURSIVE Utf8DecodeReplace(_)
\* bytes.decode("utf-8", "replace"): each ill-formed run becomes U+FFFD
Utf8DecodeReplace(b) ==
    IF b = <<>> THEN <<>>
    ELSE IF WellFormedHead(b)
    THEN Utf8Decode(SubSeq(b, 1, LeadLen(b[1]))).s
            \o Utf8DecodeReplace(SubSeq(b, LeadLen(b[1]) + 1, Len(b)))
    ELSE <<65533>> \o Utf8DecodeReplace(SubSeq(b, IllFormedLen(b) + 1, Len(b)))

RECURSIVE AsciiRun(_)
\* the number of ASCII characters s begins with
AsciiRun(s) ==
    IF s = <<>> \/ Head(s) >= 128 THEN 0 ELSE 1 + AsciiRun(Tail(s))

RECURSIVE Unquote(_)
\* urllib.parse.unquote(string): the %XX escapes of every run of ASCII
\* characters become bytes, and the run is decoded as UTF-8 with replacement
Unquote(s) ==
    IF s = <<>> THEN <<>>
    ELSE IF Head(s) >= 128 THEN <<Head(s)>> \o Unquote(Tail(s))
    ELSE Utf8DecodeReplace(UnquoteToBytes(SubSeq(s, 1, AsciiRun(s))))
            \o Unquote(SubSeq(s, AsciiRun(s) + 1, Len(s)))

RECURSIVE Newlines(_)
\* what a text-mode read makes of the decoded file: \r\n and \r become \n
Newlines(s) ==
    IF s = <<>> THEN <<>>
    ELSE IF Head(s) = 13 /\ Len(s) >= 2 /\ s[2] = 10
    THEN <<10>> \o Newlines(SubSeq(s, 3, Len(s)))
    ELSE IF Head(s) = 13 THEN <<10>> \o Newlines(Tail(s))
    ELSE <<Head(s)>> \o Newlines(Tail(s))

\* ASCII upper case to lower case
LowerChar(c) == IF c \in 65 .. 90 THEN c + 32 ELSE c
Lower(s) == [j \in 1 .. Len(s) |-> LowerChar(s[j])]

\* the host of a URL that begins with the adapter prefix is not empty
HasHost(url, prefix) ==
    /\ StartsWith(Lower(url), prefix)
    /\ Len(url) > Len(prefix)
    /\ url[Len(prefix) + 1] \notin {47, 63, 35}

\* requests.get(url) sends an HTTP request: the URL has a host and one of the
\* mounted adapters ("http://", "https://") takes it
SendsRequest(url) ==
    HasHost(url, <<104, 116, 116, 112, 58, 47, 47>>) \/ HasHost(url, <<104, 116, 116, 112, 115, 58, 47, 47>>)

\* requests.get(url).content: the body the server answered with (response), or
\* the exception requests raises without sending anything (each of them a
\* subclass of ValueError): MissingSchema for a URL with no scheme,
\* InvalidSchema for a scheme with no adapter
RequestsGet(url, response) ==
    IF SendsRequest(url) THEN response
    ELSE IF 58 \notin {url[j] : j \in 1 .. Len(url)} THEN Raise("MissingSchema")
    ELSE Raise("InvalidSchema")

\* bytes.decode("utf-8") of what was read
DecodeContent(text) ==
    IF text.ok THEN Return(PyStr(text.s)) ELSE Raise("UnicodeDecodeError")

\* fp.read() of a file opened with encoding="utf-8"
ReadText(text) ==
    IF text.ok THEN Return(PyStr(Newlines(text.s))) ELSE Raise("UnicodeDecodeError")

\* api.py line 7: requests.get(endpoint).content.decode("utf-8")
HttpBranch(endpoint, got) ==
    [branch |-> "http", requested |-> SendsRequest(endpoint), opened |-> FALSE,
     path |-> <<>>,
     end |-> IF got.out = "return" THEN DecodeContent(Utf8Decode(got.v)) ELSE got]

\* api.py lines 10-11: open(filepath, encoding="utf-8") and fp.read(); file is
\* what the file system holds at filepath.  open raises ValueError for a path
\* with a NUL character and FileNotFoundError for the empty path.
FileBranch(filepath, file) ==
    IF 0 \in {filepath[j] : j \in 1 .. Len(filepath)}
    THEN [branch |-> "file", requested |-> FALSE, opened |-> FALSE, path |-> filepath,
          end |-> Raise("ValueError")]
    ELSE [branch |-> "file", requested |-> FALSE, path |-> filepath,
          opened |-> file.exists /\ filepath # <<>>,
          end |-> IF filepath = <<>> \/ ~file.exists THEN Raise("FileNotFoundError")
                  ELSE ReadText(Utf8Decode(file.bytes))]

\* apiFetch(endpoint): the branch taken, whether an HTTP request was sent and
\* a file opened, and how the call ended
ApiFetchCall(endpoint, response, file) ==
    IF StartsWith(endpoint, HttpPrefix)
    THEN HttpBranch(endpoint, RequestsGet(endpoint, response))
    ELSE IF StartsWith(endpoint, FilePrefix)
    THEN FileBranch(Unquote(StrReplace(endpoint, FileSlashes, <<>>)), file)
    ELSE [branch |-> "none", requested |-> FALSE, opened |-> FALSE, path |-> <<>>,
          end |-> Raise("ValueError")]

\* ------------------------------------------------------------------ state

\* The model's inputs.  Keys "a" and "b" share a file name; the key U+3042
\* has three bytes in UTF-8 and a file of its own.
KeyA == <<97>>
KeyB == <<98>>
KeyC == <<12354>>
Keys == {KeyA, KeyB, KeyC}
\* the key U+00E9 has two bytes in UTF-8: KeyA, KeyE and KeyC have three
\* different file names
KeyE == <<233>>
\* the empty key
KeyEmpty == <<>>

\* values handed to insert: None and two numbers, and an object the serializer
\* rejects
Values == {PyNone, PyInt(1), PyInt(12)}
Unserializable == {PySet}

\* get's default parameter: the _NONE_TYPE() sentinel when none is given
NoDefault == [t |-> "_NONE_TYPE"]
Defaults == {NoDefault, PyNone, PyInt(7)}

Insts == {1, 2}

\* largest ram_capacity an instance is built with
MaxCapacity == 2

\* how many write_bytes calls may raise OSError in one run
MaxWriteFaults == 1

FileNames == {Md5Hex(Utf8Encode(k).bytes) : k \in Keys \cup {KeyE, KeyEmpty}}

VARIABLES
    ram,        \* ram[i]: _ram_cache of instance i, oldest entry first
    capacity,   \* capacity[i]: _ram_capacity
    version,    \* version[i]: _version (bytes)
    disk,       \* the shared directory: file name -> file
    last,       \* the last call: what was called and how it ended
    faults,     \* the number of write_bytes calls that raised OSError so far
    touch,      \* history: touch[i] lists the keys instance i holds in RAM by
                \* the last get or insert that named each, the oldest first
    inserted,   \* history: inserted[i] is the set of keys instance i inserted
    io,         \* the last apiFetch call: its endpoint, what it did, how it ended
    thread,     \* thread[t]: where thread t stands inside a call on instance 1
    overlapped  \* history: a thread took a step while the other was inside a call

vars ==
    <<ram, capacity, version, disk, last, faults, touch, inserted, io, thread,
      overlapped>>

NoCall ==
    [op |-> "none", inst |-> 0, key |-> <<>>, arg |-> NoDefault,
     end |-> Return(PyNone), src |-> "none", evicted |-> {}, held |-> "no"]

\* what the mapping held for key when a call began: nothing ("no"), None
\* ("null") or another value ("value")
Held(rm, key) ==
    IF key \notin RamKeys(rm) THEN "no"
    ELSE IF DictPop(rm, key).value = PyNone THEN "null"
    ELSE "value"

Threads == {1, 2}

\* a thread outside any call
Idle == [pc |-> "idle", op |-> "none", key |-> <<>>, value |-> PyNone]

\* no apiFetch call yet
NoFetch ==
    [op |-> "none", endpoint |-> <<>>, branch |-> "none", requested |-> FALSE,
     opened |-> FALSE, path |-> <<>>, end |-> Return(PyNone)]

\* Cache.__init__ of the instances, with the capacities caps and the versions
\* vers, on an empty directory
InitWith(caps, vers) ==
    /\ ram = [i \in Insts |-> <<>>]
    /\ capacity \in caps
    /\ version \in vers
    /\ disk = [f \in FileNames |-> NoFile]
    /\ last = NoCall
    /\ faults = 0
    /\ touch = [i \in Insts |-> <<>>]
    /\ inserted = [i \in Insts |-> {}]
    /\ io = NoFetch
    /\ thread = [t \in Threads |-> Idle]
    /\ overlapped = FALSE

VersionOne == Utf8Encode(<<118, 49>>).bytes
VersionTwo == Utf8Encode(<<118, 50>>).bytes
\* the versions "" and U+3042
VersionEmpty == Utf8Encode(<<>>).bytes
VersionWide == Utf8Encode(<<12354>>).bytes

\* instance 1 with any capacity and the version "v1"; instance 2 is not used
Init ==
    InitWith({c \in [Insts -> 1..MaxCapacity] : c[2] = 1},
             {[i \in Insts |-> IF i = 1 THEN VersionOne ELSE VersionTwo]})

\* The recency order after a get or insert naming x: x was named last; a key
\* that is no longer held is forgotten.
Touched(s, x, held) ==
    SelectSeq(SelectSeq(s, LAMBDA y : y # x) \o <<x>>, LAMBDA y : y \in held)

\* ------------------------------------------------------------------ Cache.get

\* Cache.get, lines 46-48: the promotion of the value v read from the disk
Promote(promo, v) ==
    IF promo.ok
    THEN [ram |-> promo.ram, end |-> Return(v), src |-> "disk", evicted |-> promo.evicted]
    ELSE [ram |-> promo.ram, end |-> Raise("KeyError"), src |-> "none", evicted |-> {}]

\* get returning the value read from the disk without promoting it
GetAfterRamMissNoPromote(rm, cap, key, default, d) ==
    IF d.out # "return"
    THEN [ram |-> rm, end |-> d, src |-> "none", evicted |-> {}]
    ELSE IF d.v # PyNone
    THEN [ram |-> rm, end |-> Return(d.v), src |-> "disk", evicted |-> {}]
    ELSE IF default # NoDefault
    THEN [ram |-> rm, end |-> Return(default), src |-> "default", evicted |-> {}]
    ELSE [ram |-> rm, end |-> RaiseKeyError(key), src |-> "none", evicted |-> {}]

\* get taking a default of None for no default
GetAfterRamMissNoneDefault(rm, cap, key, default, d) ==
    IF d.out # "return"
    THEN [ram |-> rm, end |-> d, src |-> "none", evicted |-> {}]
    ELSE IF d.v # PyNone
    THEN Promote(InsertToRam(rm, cap, key, d.v), d.v)
    ELSE IF default # NoDefault /\ default # PyNone
    THEN [ram |-> rm, end |-> Return(default), src |-> "default", evicted |-> {}]
    ELSE [ram |-> rm, end |-> RaiseKeyError(key), src |-> "none", evicted |-> {}]

\* Cache.get from line 45 on: rm is the mapping get_from_ram left, d what
\* get_from_disk returned or raised
GetAfterRamMiss(rm, cap, key, default, d) ==
    IF d.out # "return"
    THEN [ram |-> rm, end |-> d, src |-> "none", evicted |-> {}]
    ELSE IF d.v # PyNone
    THEN Promote(InsertToRam(rm, cap, key, d.v), d.v)
    ELSE IF default # NoDefault
    THEN [ram |-> rm, end |-> Return(default), src |-> "default", evicted |-> {}]
    ELSE [ram |-> rm, end |-> RaiseKeyError(key), src |-> "none", evicted |-> {}]

\* Cache.get, lines 40-44: r is what get_from_ram did
GetAfterRam(r, cap, ver, dir, key, default) ==
    IF r.value # PyNone
    THEN [ram |-> r.ram, end |-> Return(r.value), src |-> "ram", evicted |-> {}]
    ELSE GetAfterRamMiss(r.ram, cap, key, default, GetFromDisk(dir, ver, key))

\* Cache.get(key, default): the mapping afterwards, how the call ended, the
\* layer that supplied the value and what the promotion evicted
GetCall(rm, cap, ver, dir, key, default) ==
    GetAfterRam(GetFromRam(rm, key), cap, ver, dir, key, default)

GetDone(i, key, default, c) ==
    /\ ram' = [ram EXCEPT ![i] = c.ram]
    /\ last' = [op |-> "get", inst |-> i, key |-> key, arg |-> default,
                end |-> c.end, src |-> c.src, evicted |-> c.evicted,
                held |-> Held(ram[i], key)]
    /\ touch' = [touch EXCEPT ![i] = Touched(@, key, RamKeys(c.ram))]
    /\ UNCHANGED <<capacity, version, disk, faults, inserted, io, thread, overlapped>>

Get(i, key, default) ==
    GetDone(i, key, default,
            GetCall(ram[i], capacity[i], version[i], disk, key, default))

\* ------------------------------------------------------------------ Cache.insert

\* Cache.insert(key, value): insert_to_ram, then insert_to_disk; cut is what
\* write_bytes manages to write (see WriteBytes)
InsertAfterRam(r, ver, dir, key, value, cut) ==
    IF ~r.ok
    THEN [ram |-> r.ram, dir |-> dir, end |-> Raise("KeyError"), evicted |-> {}]
    ELSE [ram |-> r.ram, evicted |-> r.evicted] @@ InsertToDisk(dir, ver, key, value, cut)

InsertCall(rm, cap, ver, dir, key, value, cut) ==
    InsertAfterRam(InsertToRam(rm, cap, key, value), ver, dir, key, value, cut)

\* the length of the record insert(key, value) writes
RecordLen(ver, key, value) ==
    Len(Contents(ver, Utf8Encode(key).bytes, EncodeDefault(value).bytes))

InsertDone(i, key, value, c) ==
    /\ ram' = [ram EXCEPT ![i] = c.ram]
    /\ disk' = c.dir
    /\ last' = [op |-> "insert", inst |-> i, key |-> key, arg |-> value,
                end |-> c.end, src |-> "none", evicted |-> c.evicted,
                held |-> Held(ram[i], key)]
    /\ touch' = [touch EXCEPT ![i] = Touched(@, key, RamKeys(c.ram))]
    /\ inserted' = [inserted EXCEPT ![i] = @ \cup {key}]
    /\ faults' = IF c.end.out = "OSError" THEN faults + 1 ELSE faults
    /\ UNCHANGED <<capacity, version, io, thread, overlapped>>

InsertStep(i, key, value, cut) ==
    InsertDone(i, key, value,
               InsertCall(ram[i], capacity[i], version[i], disk, key, value, cut))

\* insert whose write_bytes writes the whole record (or whose encoding raises)
Insert(i, key, value) ==
    InsertStep(i, key, value, RecordLen(version[i], key, value))

\* insert whose write_bytes raises OSError, leaving the old file or the first
\* cut bytes of the record
InsertWriteFails(i, key, value) ==
    /\ faults < MaxWriteFaults
    /\ EncodeDefault(value).ok
    /\ \E cut \in WriteCuts(Contents(version[i], Utf8Encode(key).bytes,
                                      EncodeDefault(value).bytes)) :
          /\ cut < RecordLen(version[i], key, value)
          /\ InsertStep(i, key, value, cut)

\* ------------------------------------------------------------------ Cache.clear_ram

\* clear_ram dropping only the oldest entry
ClearRamOldest(rm) == IF rm = <<>> THEN rm ELSE Tail(rm)

\* Cache.clear_ram: the new, empty OrderedDict
ClearRamCall(rm) == <<>>

ClearRam(i) ==
    /\ ram' = [ram EXCEPT ![i] = ClearRamCall(@)]
    /\ last' = [NoCall EXCEPT !.op = "clear_ram", !.inst = i]
    /\ touch' = [touch EXCEPT ![i] = <<>>]
    /\ UNCHANGED <<capacity, version, disk, faults, inserted, io, thread, overlapped>>

\* ------------------------------------------------------------------ apiFetch calls

\* the endpoints apiFetch is called with: a scheme-like beginning and a rest,
\* and two file URLs with an escape and with "file://" twice
EndpointHeads == {<<>>, <<104, 116, 116, 112>>, <<104, 116, 116, 112, 115>>, <<104, 116, 116, 112, 120>>, <<102, 105, 108, 101>>, <<102, 105, 108, 101, 115>>, <<102, 116, 112>>}
EndpointRests == {<<>>, <<58, 47, 47, 104, 47, 120>>, <<47, 120>>}
Endpoints ==
    {h \o r : h \in EndpointHeads, r \in EndpointRests}
        \cup {<<102, 105, 108, 101, 58, 47, 47, 37, 54, 49>>, <<102, 105, 108, 101, 58, 47, 47, 102, 105, 108, 101, 58, 47, 47, 120>>}

\* what a server answers with and what a file holds: up to MaxPieces of these
\* byte strings ("a", "\r", "\n", U+3042 in UTF-8, and a byte that is not UTF-8)
Pieces == {<<97>>, <<13>>, <<10>>, <<227, 129, 130>>, <<255>>}
MaxPieces == 2

RECURSIVE Joined(_)
Joined(n) ==
    IF n = 0 THEN {<<>>}
    ELSE Joined(n - 1) \cup {p \o c : p \in Pieces, c \in Joined(n - 1)}

\* the world outside: the file at the path (or none), and, for a URL, the body
\* the server sends (or no server)
Worlds == {NoFile} \cup {FileOf(c) : c \in Joined(MaxPieces)}
ResponseOf(world) ==
    IF world.exists THEN Return(world.bytes) ELSE Raise("ConnectionError")

ApiFetch(endpoint, world) ==
    /\ io' = [op |-> "apiFetch", endpoint |-> endpoint]
                @@ ApiFetchCall(endpoint, ResponseOf(world), world)
    /\ UNCHANGED <<ram, capacity, version, disk, last, faults, touch, inserted,
                   thread, overlapped>>

\* ------------------------------------------------------------------ threads

\* Two threads call get and insert on instance 1 with no lock.  A step is one
\* call on the OrderedDict (pop, len, popitem, store) or one whole disk
\* operation; the threads' steps interleave freely.
ThreadKeys == {KeyA, KeyC}
ThreadValues == {PyInt(1)}

\* self._ram_cache[key] = value: a key that is there keeps its place
Store(rm, key, value) ==
    IF key \in RamKeys(rm)
    THEN [j \in 1 .. Len(rm) |-> IF rm[j].key = key THEN Entry(key, value) ELSE rm[j]]
    ELSE Append(rm, Entry(key, value))

\* the length test taking a mapping one entry over the capacity for full
IsFullLate(rm, ram_capacity) == Len(rm) = ram_capacity + 1

\* len(self._ram_cache) == self._ram_capacity
IsFull(rm, ram_capacity) == Len(rm) = ram_capacity

\* thread t takes a step that leaves the mapping rm, the directory dir and
\* the thread at next
ThreadStep(t, rm, dir, next) ==
    /\ ram' = [ram EXCEPT ![1] = rm]
    /\ disk' = dir
    /\ thread' = [thread EXCEPT ![t] = next]
    /\ overlapped' = (overlapped \/ \E u \in Threads \ {t} : thread[u].pc # "idle")
    /\ UNCHANGED <<capacity, version, last, faults, touch, inserted, io>>

\* thread t calls get(key)
CallGet(t, key) ==
    /\ thread[t].pc = "idle"
    /\ ThreadStep(t, ram[1], disk,
                  [pc |-> "get_from_ram", op |-> "get", key |-> key, value |-> PyNone])

\* thread t calls insert(key, value)
CallInsert(t, key, value) ==
    /\ thread[t].pc = "idle"
    /\ ThreadStep(t, ram[1], disk,
                  [pc |-> "pop", op |-> "insert", key |-> key, value |-> value])

\* get_from_ram, line 56: value = self._ram_cache.pop(key, None)
GetFromRamPop(t) ==
    /\ thread[t].pc = "get_from_ram"
    /\ ThreadStep(t, DictPop(ram[1], thread[t].key).ram, disk,
                  [thread[t] EXCEPT
                     !.value = DictPop(ram[1], thread[t].key).value,
                     !.pc = IF DictPop(ram[1], thread[t].key).value # PyNone
                            THEN "restore" ELSE "get_from_disk"])

\* get_from_ram, line 58: self._ram_cache[key] = value; get returns the value
GetFromRamStore(t) ==
    /\ thread[t].pc = "restore"
    /\ ThreadStep(t, Store(ram[1], thread[t].key, thread[t].value), disk, Idle)

\* where get goes with what get_from_disk returned or raised
AfterDisk(th, d) ==
    IF d.out = "return" /\ d.v # PyNone
    THEN [th EXCEPT !.value = d.v, !.pc = "pop"]
    ELSE Idle

\* get, lines 44-45: value = self.get_from_disk(key); a value is promoted
GetFromDiskStep(t) ==
    /\ thread[t].pc = "get_from_disk"
    /\ ThreadStep(t, ram[1], disk,
                  AfterDisk(thread[t], GetFromDisk(disk, version[1], thread[t].key)))

\* insert_to_ram, line 88: self._ram_cache.pop(key, None) is None
InsertToRamPop(t) ==
    /\ thread[t].pc = "pop"
    /\ ThreadStep(t, DictPop(ram[1], thread[t].key).ram, disk,
                  [thread[t] EXCEPT
                     !.pc = IF DictPop(ram[1], thread[t].key).value = PyNone
                            THEN "len" ELSE "store"])

\* insert_to_ram, line 89: len(self._ram_cache) == self._ram_capacity
InsertToRamLen(t) ==
    /\ thread[t].pc = "len"
    /\ ThreadStep(t, ram[1], disk,
                  [thread[t] EXCEPT
                     !.pc = IF IsFull(ram[1], capacity[1]) THEN "popitem" ELSE "store"])

\* insert_to_ram, line 91: self._ram_cache.popitem(last=False), which raises
\* KeyError and ends the call when the mapping is empty by now
InsertToRamPopitem(t) ==
    /\ thread[t].pc = "popitem"
    /\ IF ram[1] = <<>>
       THEN ThreadStep(t, ram[1], disk, Idle)
       ELSE ThreadStep(t, Tail(ram[1]), disk, [thread[t] EXCEPT !.pc = "store"])

\* insert_to_ram, line 93: self._ram_cache[key] = value; a get returns here,
\* an insert goes on to insert_to_disk
InsertToRamStore(t) ==
    /\ thread[t].pc = "store"
    /\ ThreadStep(t, Store(ram[1], thread[t].key, thread[t].value), disk,
                  IF thread[t].op = "insert"
                  THEN [thread[t] EXCEPT !.pc = "insert_to_disk"] ELSE Idle)

\* insert, line 84: self.insert_to_disk(key, value), the whole record written
InsertToDiskStep(t) ==
    /\ thread[t].pc = "insert_to_disk"
    /\ ThreadStep(t, ram[1],
                  InsertToDisk(disk, version[1], thread[t].key, thread[t].value,
                               RecordLen(version[1], thread[t].key, thread[t].value)).dir,
                  Idle)

\* ------------------------------------------------------------------ specifications

\* one instance, called one call at a time; every write succeeds
Next ==
    \/ \E k \in Keys, d \in Defaults : Get(1, k, d)
    \/ \E k \in Keys, v \in Values : Insert(1, k, v)
    \/ ClearRam(1)

Spec == Init /\ [][Next]_vars

\* one instance and one key; the serializer may reject the value and
\* write_bytes may raise, leaving any prefix of the record
FaultKeys == {KeyA}

NextFault ==
    \/ \E k \in FaultKeys, d \in Defaults : Get(1, k, d)
    \/ \E k \in FaultKeys, v \in Values \cup Unserializable : Insert(1, k, v)
    \/ \E k \in FaultKeys, v \in Values : InsertWriteFails(1, k, v)
    \/ ClearRam(1)

SpecFault == Init /\ [][NextFault]_vars

\* two instances on one directory, with the same or with different versions;
\* instance 1 inserts None and 1, instance 2 inserts None and 12
TwoKeys == {KeyA, KeyB}

\* the largest capacity that matters with these keys: a larger mapping is never
\* full
TwoCapacity ==
    IF MaxCapacity < Cardinality(TwoKeys) THEN MaxCapacity ELSE Cardinality(TwoKeys)

InitTwo ==
    InitWith({c \in [Insts -> 1 .. TwoCapacity] : c[1] = c[2]},
             {v \in [Insts -> {VersionOne, VersionTwo}] : v[1] = VersionOne})

ValuesOf(i) == IF i = 1 THEN {PyNone, PyInt(1)} ELSE {PyNone, PyInt(12)}

NextTwo ==
    \/ \E i \in Insts, k \in TwoKeys, d \in Defaults : Get(i, k, d)
    \/ \E i \in Insts, k \in TwoKeys : \E v \in ValuesOf(i) : Insert(i, k, v)
    \/ \E i \in Insts : ClearRam(i)

SpecTwo == InitTwo /\ [][NextTwo]_vars

\* the run of the LRU example: insert A, insert B, get A, insert C and a
\* closing get B, with any values and any default
InitScenario ==
    InitWith({[i \in Insts |-> IF i = 1 THEN c ELSE 1] : c \in 1 .. MaxCapacity},
             {[i \in Insts |-> IF i = 1 THEN VersionOne ELSE VersionTwo]})

NextScenario ==
    \/ /\ last.op = "none"
       /\ \E v \in Values : Insert(1, KeyA, v)
    \/ /\ last.op = "insert" /\ last.key = KeyA
       /\ \E v \in Values : Insert(1, KeyB, v)
    \/ /\ last.op = "insert" /\ last.key = KeyB
       /\ \E d \in Defaults : Get(1, KeyA, d)
    \/ /\ last.op = "get" /\ last.key = KeyA
       /\ \E v \in Values : Insert(1, KeyC, v)
    \/ /\ last.op = "insert" /\ last.key = KeyC
       /\ \E d \in Defaults : Get(1, KeyB, d)

SpecScenario == InitScenario /\ [][NextScenario]_vars

\* one instance of capacity 1 whose version is "", "v1" or U+3042, with the keys
\* "", "a", U+3042 and the values None, "", U+3042 (a string) and 12
InitRecord ==
    InitWith({[i \in Insts |-> 1]},
             {[i \in Insts |-> IF i = 1 THEN v ELSE VersionTwo] :
                 v \in {VersionEmpty, VersionOne, VersionWide}})

RecordKeys == {KeyEmpty, KeyA, KeyC}
RecordValues == {PyNone, PyStr(<<>>), PyStr(<<12354>>), PyInt(12)}

NextRecord ==
    \/ \E k \in RecordKeys : Get(1, k, NoDefault)
    \/ \E k \in RecordKeys, v \in RecordValues : Insert(1, k, v)
    \/ ClearRam(1)

SpecRecord == InitRecord /\ [][NextRecord]_vars

\* one instance, three keys with three file names, values that are not None
MapKeys == {KeyA, KeyE, KeyC}
MapValues == {PyInt(1), PyInt(12)}
MapDefaults == {NoDefault, PyInt(7)}

NextMap ==
    \/ \E k \in MapKeys, d \in MapDefaults : Get(1, k, d)
    \/ \E k \in MapKeys, v \in MapValues : Insert(1, k, v)
    \/ ClearRam(1)

SpecMap == Init /\ [][NextMap]_vars

\* two threads on instance 1, their steps interleaved
NextThreads ==
    \E t \in Threads :
        \/ \E k \in ThreadKeys : CallGet(t, k)
        \/ \E k \in ThreadKeys, v \in ThreadValues : CallInsert(t, k, v)
        \/ GetFromRamPop(t)
        \/ GetFromRamStore(t)
        \/ GetFromDiskStep(t)
        \/ InsertToRamPop(t)
        \/ InsertToRamLen(t)
        \/ InsertToRamPopitem(t)
        \/ InsertToRamStore(t)
        \/ InsertToDiskStep(t)

SpecThreads == Init /\ [][NextThreads]_vars

\* one apiFetch call, with any endpoint in any world
NextFetch ==
    /\ io.op = "none"
    /\ \E e \in Endpoints, w \in Worlds : ApiFetch(e, w)

SpecFetch == Init /\ [][NextFetch]_vars

\* the run of the promotion example: three keys with different file names
\* inserted with the values "1", "2", "3", then get of the first key, then
\* RAM-only lookups
One == PyStr(<<49>>)
Two == PyStr(<<50>>)
Three == PyStr(<<51>>)

NextPromote ==
    \/ /\ last.op = "none"
       /\ Insert(1, KeyA, One)
    \/ /\ last.op = "insert" /\ last.key = KeyA
       /\ Insert(1, KeyE, Two)
    \/ /\ last.op = "insert" /\ last.key = KeyE
       /\ Insert(1, KeyC, Three)
    \/ /\ last.op = "insert" /\ last.key = KeyC
       /\ \E d \in Defaults : Get(1, KeyA, d)

SpecPromote == InitScenario /\ [][NextPromote]_vars

\* ------------------------------------------------------------------ claims

\* the file an instance with the version ver reads and writes for key
FileFor(dir, key) == dir[Md5Hex(Utf8Encode(key).bytes)]

\* the record of key and value under the version ver, whole
RecordOf(ver, key, value) ==
    Contents(ver, Utf8Encode(key).bytes, EncodeDefault(value).bytes)

\* the version and key fields of a record, with their lengths
Header(ver, key) ==
    ToBytes(Len(ver), 8) \o ver
        \o ToBytes(Len(Utf8Encode(key).bytes), 8) \o Utf8Encode(key).bytes

\* the file begins with the version ver and the key key
HasHeader(file, ver, key) ==
    /\ file.exists
    /\ Len(file.bytes) >= Len(Header(ver, key))
    /\ SubSeq(file.bytes, 1, Len(Header(ver, key))) = Header(ver, key)

\* the newest entry of a mapping
Newest(rm) == rm[Len(rm)]

\* C1: on a cache with capacity >= 1, insert(k, v) immediately followed by
\* get(k) with no default returns v, for every key and every value the default
\* serializer supports (None among them).
C1_RoundTrip ==
    [][(/\ last.op = "insert" /\ last.end.out = "return"
        /\ last'.op = "get" /\ last'.inst = last.inst /\ last'.key = last.key
        /\ last'.arg = NoDefault)
       => last'.end = Return(last.arg)]_vars

\* C2: the RAM Layer never holds more than ram_capacity entries, and no key
\* twice.
C2_RamCapacity ==
    \A i \in Insts :
        /\ Len(ram[i]) <= capacity[i]
        /\ Cardinality(RamKeys(ram[i])) = Len(ram[i])

\* C2's case: a full RAM Layer took a new key and evicted for it.
C2_Witness ==
    /\ last.evicted # {}
    /\ Len(ram[1]) = capacity[1]
    /\ capacity[1] > 1

\* C3: with capacity 2, insert A, insert B, get A, insert C leaves the RAM
\* Layer holding A and C and not B.
C3_Scenario ==
    (capacity[1] = 2 /\ last.op = "insert" /\ last.key = KeyC)
    => RamKeys(ram[1]) = {KeyA, KeyC}

\* the step puts its key, absent from instance i's RAM Layer, into that layer
PutsAbsentKey(i) ==
    /\ last'.inst = i
    /\ last'.op = "insert" \/ (last'.op = "get" /\ last'.src = "disk")
    /\ last'.key \notin RamKeys(ram[i])

\* C3, the rule: when a key that is not in RAM is put into a RAM Layer that
\* holds ram_capacity entries, the entry whose last get or insert is the oldest
\* is evicted, every other entry stays as it is, and the new entry is the newest.
C3_EvictionRule ==
    [][\A i \in Insts :
          (PutsAbsentKey(i) /\ Len(ram[i]) = capacity[i])
          => /\ last'.evicted = {Head(touch[i])}
             /\ ram'[i] = SelectSeq(ram[i], LAMBDA e : e.key # Head(touch[i]))
                            \o <<Entry(last'.key,
                                       IF last'.op = "insert" THEN last'.arg
                                       ELSE last'.end.v)>>
             /\ Len(ram'[i]) = capacity[i]]_vars

\* C4: a get that misses RAM and is satisfied from the disk returns the value
\* stored on disk for the key and leaves the key in RAM with that value as the
\* newest entry, so that a RAM-only lookup finds it.
C4_Promotion ==
    (last.op = "get" /\ last.src = "disk")
    => /\ last.end.out = "return"
       /\ FileFor(disk, last.key)
            = FileOf(RecordOf(version[last.inst], last.key, last.end.v))
       /\ ram[last.inst] # <<>>
       /\ Newest(ram[last.inst]) = Entry(last.key, last.end.v)
       /\ Cardinality({j \in 1..Len(ram[last.inst]) :
                          ram[last.inst][j].key = last.key}) = 1
       /\ GetFromRam(ram[last.inst], last.key).value = last.end.v

\* C4's case: a get served from the disk that evicted another key for the
\* promotion.
C4_Witness ==
    /\ last.op = "get" /\ last.src = "disk"
    /\ last.evicted # {}
    /\ last.key \in RamKeys(ram[1])

\* C5: two instances with different versions: a get never returns a value only
\* the other instance wrote, and for a key this instance never inserted it
\* ends in the default or in KeyError and leaves the key out of its RAM.
C5_VersionIsolation ==
    (version[1] # version[2] /\ last.op = "get")
    => /\ last.src \in {"ram", "disk"} => last.end.v \in ValuesOf(last.inst)
       /\ last.key \notin inserted[last.inst]
          => /\ \/ last.arg # NoDefault /\ last.src = "default"
                   /\ last.end = Return(last.arg)
                \/ last.arg = NoDefault /\ last.end = RaiseKeyError(last.key)
             /\ last.key \notin RamKeys(ram[last.inst])

\* C5's case: instance 2 asked for a key whose file holds a record instance 1
\* wrote under the other version.
C5_Witness ==
    /\ version[1] # version[2]
    /\ last.op = "get" /\ last.inst = 2
    /\ last.key \notin inserted[2]
    /\ FileFor(disk, last.key) = FileOf(RecordOf(version[1], last.key, PyInt(1)))

\* the key is in neither layer of instance i: not in its RAM, and its file is
\* absent or holds a record of another version or another key
InNeitherLayer(i, key) ==
    /\ key \notin RamKeys(ram[i])
    /\ ~HasHeader(FileFor(disk, key), version[i], key)

\* C6: a get that finds its key in neither layer returns the default it was
\* given, None included, unchanged and without raising; with no default it
\* raises KeyError(key); it changes no layer.
C6_DefaultFallback ==
    [][(last'.op = "get" /\ InNeitherLayer(last'.inst, last'.key))
       => /\ last'.arg # NoDefault
             => last'.end = Return(last'.arg) /\ last'.src = "default"
          /\ last'.arg = NoDefault => last'.end = RaiseKeyError(last'.key)
          /\ ram' = ram /\ disk' = disk]_vars

\* C6's case: a get with the default None missed because the file holds a
\* record of the other version.
C6_Witness ==
    /\ last.op = "get" /\ last.arg = PyNone /\ last.src = "default"
    /\ last.end = Return(PyNone)
    /\ FileFor(disk, last.key).exists
    /\ \E i \in Insts :
          /\ i # last.inst /\ version[i] # version[last.inst]
          /\ HasHeader(FileFor(disk, last.key), version[i], last.key)

\* C7: right after insert(k, v) returned, get_from_ram(k) yields v and
\* get_from_disk(k) under the instance's version yields v.
C7_InsertBothLayers ==
    (last.op = "insert" /\ last.end.out = "return")
    => /\ GetFromRam(ram[last.inst], last.key).value = last.arg
       /\ GetFromDisk(disk, version[last.inst], last.key) = Return(last.arg)
       /\ last.key \in RamKeys(ram[last.inst])

\* C7's case: an insert of a new key into a full RAM Layer returned.
C7_Witness ==
    /\ last.op = "insert" /\ last.end.out = "return"
    /\ last.evicted # {}
    /\ last.arg = PyInt(12)

\* C8: when an insert(k, v) call has ended, by returning or by raising, either
\* both layers hold v for k or the call changed neither layer.
C8_NoPartialInsert ==
    [][last'.op = "insert"
       => \/ /\ Entry(last'.key, last'.arg) \in
                    {ram'[last'.inst][j] : j \in 1..Len(ram'[last'.inst])}
             /\ FileFor(disk', last'.key)
                  = FileOf(RecordOf(version[last'.inst], last'.key, last'.arg))
          \/ ram' = ram /\ disk' = disk]_vars

\* C9: a disk read returns a value only from a file that begins with the
\* instance's version and the key asked for; a get that misses RAM while the
\* file of its key holds the record of another key is a miss.
C9_CollisionGuard ==
    /\ (last.op = "get" /\ last.src = "disk")
       => HasHeader(FileFor(disk, last.key), version[last.inst], last.key)
    /\ (/\ last.op = "get" /\ last.src # "ram"
        /\ \E k \in Keys \ {last.key} : \E i \in Insts :
              HasHeader(FileFor(disk, last.key), version[i], k))
       => \/ last.src = "default" /\ last.end = Return(last.arg)
          \/ last.end = RaiseKeyError(last.key)

\* C9's case: a get missed although the file of its key holds a record of the
\* same version, written for the colliding key.
C9_Witness ==
    /\ last.op = "get" /\ last.key = KeyB /\ last.src = "default"
    /\ KeyB \in inserted[last.inst]
    /\ FileFor(disk, KeyB) = FileOf(RecordOf(version[last.inst], KeyA, PyInt(1)))

\* C10: clear_ram empties the instance's RAM Layer and changes neither
\* ram_capacity, nor the version, nor any file.
C10_ClearRam ==
    [][last'.op = "clear_ram"
       => /\ ram'[last'.inst] = <<>>
          /\ capacity' = capacity /\ version' = version /\ disk' = disk]_vars

\* C10's case: clear_ram ran on a cache that had written a file.
C10_Witness ==
    /\ last.op = "clear_ram"
    /\ inserted[1] # {}
    /\ \E f \in FileNames : disk[f].exists
    /\ ram[1] = <<>>

\* C11, the example: with capacity 2, after insert(a, "1"), insert(b, "2"),
\* insert(c, "3") the RAM Layer holds exactly b and c; get(a) then returns "1"
\* from the disk and leaves exactly c and a, a the newest.
C11_Scenario ==
    capacity[1] = 2
    => /\ (last.op = "insert" /\ last.key = KeyC)
          => ram[1] = <<Entry(KeyE, Two), Entry(KeyC, Three)>>
       /\ last.op = "get"
          => /\ last.end = Return(One) /\ last.src = "disk"
             /\ ram[1] = <<Entry(KeyC, Three), Entry(KeyA, One)>>

\* C11: a get served from the disk while the RAM Layer holds ram_capacity
\* entries removes exactly the least recently used entry, stores the key as the
\* newest entry and keeps the size equal to ram_capacity.
C11_PromotionEvicts ==
    [][\A i \in Insts :
          (/\ last'.op = "get" /\ last'.inst = i /\ last'.src = "disk"
           /\ Len(ram[i]) = capacity[i])
          => /\ Head(ram[i]).key = Head(touch[i])
             /\ ram'[i] = Tail(ram[i]) \o <<Entry(last'.key, last'.end.v)>>
             /\ Len(ram'[i]) = capacity[i]]_vars

\* the URI scheme of an endpoint: the letters, digits, "+", "-", "." before
\* the first ":", beginning with a letter; <<>> when it has none
IsSchemeChar(c) ==
    c \in (97 .. 122) \cup (65 .. 90) \cup (48 .. 57) \cup {43, 45, 46}
Scheme(endpoint) ==
    IF \E j \in 2 .. Len(endpoint) :
           /\ endpoint[j] = 58
           /\ \A m \in 1 .. j - 1 : IsSchemeChar(endpoint[m])
           /\ endpoint[1] \in (97 .. 122) \cup (65 .. 90)
    THEN SubSeq(endpoint, 1,
                (CHOOSE j \in 2 .. Len(endpoint) :
                    endpoint[j] = 58 /\ \A m \in 1 .. j - 1 : endpoint[m] # 58) - 1)
    ELSE <<>>

\* C12: apiFetch raises ValueError, sends no HTTP request and opens no file for
\* every endpoint whose scheme is not exactly http, https or file (the empty
\* endpoint among them); only http and https take the HTTP branch and only
\* file takes the file branch.
C12_SchemeDispatch ==
    io.op = "apiFetch"
    => /\ Scheme(io.endpoint) \notin {<<104, 116, 116, 112>>, <<104, 116, 116, 112, 115>>, <<102, 105, 108, 101>>}
          => /\ io.end = Raise("ValueError")
             /\ ~io.requested /\ ~io.opened /\ io.branch = "none"
       /\ io.branch = "http" => Scheme(io.endpoint) \in {<<104, 116, 116, 112>>, <<104, 116, 116, 112, 115>>}
       /\ io.branch = "file" => Scheme(io.endpoint) = <<102, 105, 108, 101>>

\* C12, the part on reading: an endpoint whose scheme is not file opens no file.
C12_NoFileRead ==
    (io.op = "apiFetch" /\ Scheme(io.endpoint) # <<102, 105, 108, 101>>) => ~io.opened

\* the entries of a mapping, without their order
Entries(rm) == {rm[j] : j \in 1 .. Len(rm)}

\* C13: a key leaves a RAM Layer only in a clear_ram step or in a step that
\* evicts it as the least recently used entry for another key, absent from a
\* full layer; no get changes the value held for a key, and a get served from
\* RAM changes only the order of the entries.
C13_RamLifecycle ==
    [][\A i \in Insts :
          /\ \A k \in RamKeys(ram[i]) \ RamKeys(ram'[i]) :
                /\ last'.inst = i
                /\ \/ last'.op = "clear_ram"
                   \/ /\ last'.evicted = {k}
                      /\ k = Head(ram[i]).key
                      /\ last'.key # k
                      /\ last'.key \notin RamKeys(ram[i])
                      /\ Len(ram[i]) = capacity[i]
          /\ (last'.op = "get" /\ last'.inst = i)
             => /\ \A k \in RamKeys(ram[i]) \cap RamKeys(ram'[i]) :
                      DictPop(ram'[i], k).value = DictPop(ram[i], k).value
                /\ last'.src = "ram" => Entries(ram'[i]) = Entries(ram[i])]_vars

\* C14: insert_to_ram of a key the RAM Layer already holds, whatever value
\* (None too) it holds for it and full or not: the key gets the new value and
\* becomes the newest entry, the other entries stay in their order, none is
\* evicted and the size does not change.
C14_ReInsert ==
    [][\A i \in Insts :
          (/\ last'.op = "insert" /\ last'.inst = i
           /\ last'.key \in RamKeys(ram[i]))
          => /\ ram'[i] = SelectSeq(ram[i], LAMBDA e : e.key # last'.key)
                            \o <<Entry(last'.key, last'.arg)>>
             /\ last'.evicted = {}
             /\ Len(ram'[i]) = Len(ram[i])]_vars

\* C14's case: a full RAM Layer of two entries that held None for the key
\* took a new value for it.
C14_Witness ==
    /\ last.op = "insert" /\ last.inst = 1 /\ last.held = "null"
    /\ last.arg = PyInt(12)
    /\ capacity[1] = 2 /\ Len(ram[1]) = 2
    /\ Newest(ram[1]) = Entry(last.key, PyInt(12))

\* C15: no get creates, deletes or changes a file, whether it is served from
\* RAM or from the disk or misses; the directory changes only in an insert, and
\* an insert changes no file but the one named by the hash of its key.
C15_ReadsNeverWrite ==
    [][/\ last'.op = "get" => disk' = disk
       /\ disk' # disk
          => /\ last'.op = "insert"
             /\ \A f \in FileNames \ {Md5Hex(Utf8Encode(last'.key).bytes)} :
                   disk'[f] = disk[f]]_vars

\* C15's case: a get that found the record of the other version in the file
\* of its key, after both instances had written.
C15_Witness ==
    /\ last.op = "get" /\ last.src \in {"default", "none"}
    /\ version[1] # version[2]
    /\ inserted[1] # {} /\ inserted[2] # {}
    /\ \E i \in Insts \ {last.inst} :
          HasHeader(FileFor(disk, last.key), version[i], last.key)

\* a length below 2^31 as 8 bytes, the least significant first
LittleEndian8(n) ==
    <<n % 256, (n \div 256) % 256, (n \div 65536) % 256, (n \div 16777216) % 256,
      0, 0, 0, 0>>

\* C16: after insert(k, v) returned, the file named by the hash of k holds
\* exactly version_len, version, key_len, key, value_len, encode(v), each
\* length the byte count of the field after it in 8 little-endian bytes, and
\* get_from_disk(k) under the same version returns decode(encode(v)); for
\* empty and non-empty versions, keys and values.
C16_RecordLayout ==
    (last.op = "insert" /\ last.end.out = "return")
    => /\ FileFor(disk, last.key).exists
       /\ FileFor(disk, last.key).bytes
            = LittleEndian8(Len(version[last.inst])) \o version[last.inst]
                \o LittleEndian8(Len(Utf8Encode(last.key).bytes))
                \o Utf8Encode(last.key).bytes
                \o LittleEndian8(Len(EncodeDefault(last.arg).bytes))
                \o EncodeDefault(last.arg).bytes
       /\ GetFromDisk(disk, version[last.inst], last.key)
            = Decoded(DecodeDefault(EncodeDefault(last.arg).bytes))
       /\ Decoded(DecodeDefault(EncodeDefault(last.arg).bytes)) = Return(last.arg)

\* C16's case: the empty key was inserted with the empty string under the
\* empty version, over an earlier record.
C16_Witness ==
    /\ last.op = "insert" /\ last.end.out = "return"
    /\ version[1] = VersionEmpty /\ last.key = KeyEmpty /\ last.arg = PyStr(<<>>)
    /\ last.held = "value"
    /\ Len(FileFor(disk, KeyEmpty).bytes) = 26

\* the file holds a proper prefix (the empty one too) of the record insert
\* writes for key and some value under the version ver
IsTruncated(file, ver, key) ==
    /\ file.exists
    /\ \E v \in Values :
          /\ Len(file.bytes) < Len(RecordOf(ver, key, v))
          /\ file.bytes = SubSeq(RecordOf(ver, key, v), 1, Len(file.bytes))

\* C17: a get that misses RAM while the file of its key holds a proper prefix
\* of a record written for that key under the instance's version ends in a
\* fault: it neither returns (the default or anything else) nor raises KeyError.
C17_TruncatedFaults ==
    (/\ last.op = "get" /\ last.src # "ram"
     /\ IsTruncated(FileFor(disk, last.key), version[last.inst], last.key))
    => last.end.out \notin {"return", "KeyError"}

\* C18: with two threads on one instance and no lock, the RAM Layer holds
\* more than ram_capacity entries only after the steps of two calls
\* interleaved; as long as every call ran from its first to its last step with
\* no step of the other thread in between, it holds at most ram_capacity.
C18_OverCapacityNeedsInterleaving ==
    overlapped \/ Len(ram[1]) <= capacity[1]

\* C18's case: both threads have returned and the RAM Layer holds more than
\* ram_capacity entries.
C18_Witness ==
    /\ \A t \in Threads : thread[t].pc = "idle"
    /\ Len(ram[1]) > capacity[1]
    /\ overlapped

\* the plain map a directory stands for under the version ver: for each key
\* what a lookup of the disk alone returns, None for a key with no record
MapOf(dir, ver) == [k \in MapKeys |-> GetFromDisk(dir, ver, k)]

\* C19: for one instance, keys with different hashes and values that are not
\* None, the cache behaves as a plain unbounded map: the map starts empty, an
\* insert(k, v) puts v under k and changes nothing else, get and clear_ram
\* change nothing, and every get(k) returns what the map holds for k, the value
\* of the last insert(k, .), or, when there was none, the default or KeyError.
C19_RefinesMap ==
    [][/\ last.op = "none"
          => MapOf(disk, version[1]) = [k \in MapKeys |-> Return(PyNone)]
       /\ last'.op = "insert"
          => /\ last'.end = Return(PyNone)
             /\ MapOf(disk', version'[1])
                  = [MapOf(disk, version[1]) EXCEPT ![last'.key] = Return(last'.arg)]
       /\ last'.op \in {"get", "clear_ram"}
          => MapOf(disk', version'[1]) = MapOf(disk, version[1])
       /\ last'.op = "get"
          => IF MapOf(disk, version[1])[last'.key] # Return(PyNone)
             THEN last'.end = MapOf(disk, version[1])[last'.key]
             ELSE IF last'.arg # NoDefault
             THEN last'.end = Return(last'.arg)
             ELSE last'.end = RaiseKeyError(last'.key)]_vars

\* C19's case: a get returned the value last inserted for its key after the
\* key had left a RAM Layer of two entries, evicting another key on its way
\* back.
C19_Witness ==
    /\ last.op = "get" /\ last.src = "disk" /\ last.held = "no"
    /\ last.end = Return(PyInt(12))
    /\ last.evicted # {}
    /\ capacity[1] = 2
    /\ inserted[1] = MapKeys

\* C20: in every reachable state, when an instance holds the value v for the
\* key k in RAM and the file of k holds a record of k under the instance's
\* version, the record decodes to v; also with a second instance of the same
\* directory and version inserting in between.
C20_OneLiveValue ==
    \A i \in Insts : \A j \in 1 .. Len(ram[i]) :
        HasHeader(FileFor(disk, ram[i][j].key), version[i], ram[i][j].key)
        => GetFromDisk(disk, version[i], ram[i][j].key) = Return(ram[i][j].value)

====
